---- MODULE Spec2Model ----
(***************************************************************************)
(* The six error-handling demos (demo1.rs .. demo6.rs) as one state        *)
(* machine.  A run is one execution of one demo's main(): resolve the      *)
(* first positional argument, open the file, pull lines from               *)
(* BufReader::lines(), optionally parse them, print, and exit.             *)
(*                                                                         *)
(* Text is a sequence of one-character strings.  The standard library      *)
(* operations the demos call (Iterator::nth, File::open, BufRead::lines,   *)
(* str::trim, str::parse, Display for integers, process::exit, unwrap)     *)
(* are modelled by what the Rust standard library documents for them.      *)
(***************************************************************************)
EXTENDS Integers, Sequences, FiniteSets, TLC

\* ------------------------------------------------------------------ bounds
\* Longest multi-line file, in lines.
MaxLines == 3
\* Longest suffix appended to a seed when building single-line numeric files.
MaxSuffix == 2

\* ------------------------------------------------------------- characters
LF == "\n"
CR == "\r"
\* A byte that is not valid UTF-8 (BufRead::lines yields InvalidData for it).
InvalidByte == "0xFF"
Digits == <<"0", "1", "2", "3", "4", "5", "6", "7", "8", "9">>
\* char::is_whitespace, restricted to the characters that occur in the inputs.
WhiteSpace == {" ", "\t", CR, LF}

\* ------------------------------------------------------- integer parsing
\* An integer value is [neg, mag]: its sign and its magnitude as decimal
\* digits, most significant first, without leading zeros (zero is <<0>>).
\* The widths of u64 and i32 exceed the checker's own integers, so the
\* range checks of the checked arithmetic compare magnitudes.

\* u64::MAX = 2^64 - 1 = 18446744073709551615.
U64Max == <<1, 8, 4, 4, 6, 7, 4, 4, 0, 7, 3, 7, 0, 9, 5, 5, 1, 6, 1, 5>>
\* i32::MAX = 2^31 - 1 = 2147483647 and |i32::MIN| = 2^31 = 2147483648.
I32Max == <<2, 1, 4, 7, 4, 8, 3, 6, 4, 7>>
I32MinMag == <<2, 1, 4, 7, 4, 8, 3, 6, 4, 8>>

\* a <= b on magnitudes: shorter is smaller, equal lengths compare digit by digit.
RECURSIVE LexLeq(_, _, _)
LexLeq(a, b, i) ==
    IF i > Len(a) THEN TRUE
    ELSE IF a[i] # b[i] THEN a[i] < b[i]
    ELSE LexLeq(a, b, i + 1)
MagLeq(a, b) ==
    IF Len(a) # Len(b) THEN Len(a) < Len(b) ELSE LexLeq(a, b, 1)

\* The largest magnitude the type holds on the positive and on the negative side.
MaxMag(signed, bits) == IF signed /\ bits = 32 THEN I32Max ELSE U64Max
MinMag(signed, bits) == IF signed /\ bits = 32 THEN I32MinMag ELSE <<0>>

\* char::to_digit(10): the digit's value, or -1 when c is no decimal digit.
ToDigit(c) ==
    IF \E i \in 1..10 : Digits[i] = c
    THEN (CHOOSE i \in 1..10 : Digits[i] = c) - 1
    ELSE -1

\* acc * 10 + d on magnitudes.
MulTenAdd(acc, d) == IF acc = <<0>> THEN <<d>> ELSE Append(acc, d)

\* The checked accumulation loop of from_str_radix over the digit characters:
\* each step multiplies by ten and adds (or, for a negative numeral,
\* subtracts) the digit, failing on a non-digit or on leaving the type's range.
RECURSIVE Accumulate(_, _, _, _, _, _)
Accumulate(ds, i, acc, positive, signed, bits) ==
    IF i > Len(ds)
    THEN [ok |-> TRUE, val |-> [neg |-> (~positive) /\ acc # <<0>>, mag |-> acc]]
    ELSE LET d == ToDigit(ds[i])
             nxt == MulTenAdd(acc, d)
         IN  IF d < 0 THEN [ok |-> FALSE, err |-> "InvalidDigit"]
             ELSE IF positive /\ ~MagLeq(nxt, MaxMag(signed, bits))
                  THEN [ok |-> FALSE, err |-> "PosOverflow"]
             ELSE IF (~positive) /\ ~MagLeq(nxt, MinMag(signed, bits))
                  THEN [ok |-> FALSE, err |-> "NegOverflow"]
             ELSE Accumulate(ds, i + 1, nxt, positive, signed, bits)

\* <integer type>::from_str: Ok(value) or Err(ParseIntError kind).  An empty
\* string is Empty; a lone sign is InvalidDigit; a leading '+' is accepted by
\* every integer type and a leading '-' only by the signed ones.
FromStr(src, signed, bits) ==
    IF Len(src) = 0 THEN [ok |-> FALSE, err |-> "Empty"]
    ELSE IF src[1] \in {"+", "-"} /\ Len(src) = 1
         THEN [ok |-> FALSE, err |-> "InvalidDigit"]
    ELSE IF src[1] = "+"
         THEN Accumulate(Tail(src), 1, <<0>>, TRUE, signed, bits)
    ELSE IF src[1] = "-" /\ signed
         THEN Accumulate(Tail(src), 1, <<0>>, FALSE, signed, bits)
    ELSE Accumulate(src, 1, <<0>>, TRUE, signed, bits)

\* demo1.rs: arg.parse() into an i32.
ParseI32(src) == FromStr(src, TRUE, 32)

\* str::trim: drop leading and trailing whitespace.
RECURSIVE TrimStart(_)
TrimStart(s) ==
    IF Len(s) > 0 /\ s[1] \in WhiteSpace THEN TrimStart(Tail(s)) ELSE s
RECURSIVE TrimEnd(_)
TrimEnd(s) ==
    IF Len(s) > 0 /\ s[Len(s)] \in WhiteSpace
    THEN TrimEnd(SubSeq(s, 1, Len(s) - 1)) ELSE s
Trim(s) == TrimEnd(TrimStart(s))

\* A fault of ParseLineU64: the line is parsed without being trimmed.
ParseLineU64_NoTrim(line) == FromStr(line, FALSE, 64)

\* demo6.rs: line.trim().parse() into a u64.
ParseLineU64(line) == FromStr(Trim(line), FALSE, 64)

\* Display for an integer: its decimal digits, "-" first when negative.
FormatInt(v) ==
    (IF v.neg THEN <<"-">> ELSE <<>>) \o [i \in 1..Len(v.mag) |-> Digits[v.mag[i] + 1]]

\* ------------------------------------------------------------ line source
\* The index of the first LF of bytes at or after pos, or Len(bytes) when
\* there is none: where read_until(b'\n') stops.
RECURSIVE LineEnd(_, _)
LineEnd(bytes, pos) ==
    IF pos >= Len(bytes) \/ bytes[pos] = LF THEN pos ELSE LineEnd(bytes, pos + 1)

\* A fault of StripTerminator: only the "\n" is stripped, a "\r" before it stays.
StripTerminator_KeepCR(raw) ==
    IF Len(raw) > 0 /\ raw[Len(raw)] = LF THEN SubSeq(raw, 1, Len(raw) - 1) ELSE raw

\* Lines::next strips the line terminator: a final "\n", and a "\r" before it.
StripTerminator(raw) ==
    IF Len(raw) > 0 /\ raw[Len(raw)] = LF
    THEN LET s == SubSeq(raw, 1, Len(raw) - 1)
         IN  IF Len(s) > 0 /\ s[Len(s)] = CR THEN SubSeq(s, 1, Len(s) - 1) ELSE s
    ELSE raw

\* One call of Lines::next on an open file whose read position is pos:
\* what is yielded and the new position.  A read that fails in the operating
\* system (failAt = pos) consumes nothing, so it fails again on every later
\* call; a line that is not valid UTF-8 is consumed and yields InvalidData.
LinesNext(bytes, failAt, pos) ==
    IF failAt = pos THEN [kind |-> "err", cause |-> "OsError", pos |-> pos]
    ELSE IF pos > Len(bytes) THEN [kind |-> "eof", pos |-> pos]
    ELSE LET e == LineEnd(bytes, pos)
             raw == SubSeq(bytes, pos, e)
         IN  IF \E i \in 1..Len(raw) : raw[i] = InvalidByte
             THEN [kind |-> "err", cause |-> "InvalidData", pos |-> e + 1]
             ELSE [kind |-> "ok", line |-> StripTerminator(raw), pos |-> e + 1]

\* ------------------------------------------------------------- the inputs
\* The lines multi-line files are written from: a numeral, a numeral with
\* surrounding whitespace, a non-numeral, a line that is not valid UTF-8, and
\* the empty line.
Bodies ==
    { <<"3">>, <<" ", "4", "2", "\t">>, <<"x">>, <<"7", InvalidByte>>, <<>> }

\* The characters single-line numeric inputs are extended with.
Alphabet == {"0", "5", "6", " ", "+", "-", "x"}
\* The first nineteen digits of u64::MAX.
Seed19 ==
    <<"1", "8", "4", "4", "6", "7", "4", "4", "0", "7", "3", "7", "0", "9", "5",
      "5", "1", "6", "1">>
\* What single-line numeric inputs start with.
Seeds == { <<>>, Seed19, <<"+">> \o Seed19, <<" ", "0">> \o Seed19 }
\* What the argument of demo1 starts with: around i32::MAX and i32::MIN.
ArgSeeds ==
    { <<>>,
      <<"2", "1", "4", "7", "4", "8", "3", "6", "4", "7">>,
      <<"2", "1", "4", "7", "4", "8", "3", "6", "4", "8">>,
      <<"-", "2", "1", "4", "7", "4", "8", "3", "6", "4", "8">>,
      <<"-", "2", "1", "4", "7", "4", "8", "3", "6", "4", "9">> }

\* All sequences over S of length at most n.
SeqUpTo(S, n) == UNION { [1..k -> S] : k \in 0..n }

\* The bytes of a file written from rows, each followed by the terminator
\* term, the last one only when finalNL.
RECURSIVE Encode(_, _, _)
Encode(rs, term, finalNL) ==
    IF Len(rs) = 0 THEN <<>>
    ELSE IF Len(rs) = 1 THEN (IF finalNL THEN rs[1] \o term ELSE rs[1])
    ELSE rs[1] \o term \o Encode(Tail(rs), term, finalNL)

\* argv[0], the program's name, and the path argument the file demos are given.
ProgName == <<"d", "e", "m", "o">>
PathArg == <<"f">>
NoFile == [exists |-> FALSE, bytes |-> <<>>, failAt |-> 0]

\* The read positions at which a line starts (or the file ends): where a
\* failing read of the operating system can hit Lines::next.
ReadPoints(bytes) ==
    {1, Len(bytes) + 1} \cup { i \in 2..Len(bytes) : bytes[i - 1] = LF }

\* ------------------------------------------------------------------ state
VARIABLES
    demo,       \* which program runs: 1..6 for demo1.rs .. demo6.rs
    argv,       \* env::args(): the program name, then the arguments
    disk,       \* the file at the path: whether it opens, its bytes, and the
                \* read position at which the operating system fails (0: never)
    rows,       \* the lines the file's bytes were written from
    pc,         \* the position of main / read_file
    file_name,  \* main: `file_name` (demo1: `arg`)
    opened,     \* whether File::open has returned a file
    pos,        \* the BufReader's read position
    lines,      \* read_file: `lines` (demo3, demo4, demo5)
    numbers,    \* read_file: `numbers` (demo6)
    ret,        \* what read_file returned to main
    console,    \* what println! (and the panic handler) wrote, in order
    exitCode,   \* the process's exit status; -1 while it runs
    nextCalls,  \* how many times Lines::next was called
    lastYield,  \* what Lines::next yielded last: none, ok, err or eof
    lineNo,     \* how many lines Lines::next has consumed
    faults      \* the steps that failed during the run

vars ==
    <<demo, argv, disk, rows, pc, file_name, opened, pos, lines, numbers, ret,
      console, exitCode, nextCalls, lastYield, lineNo, faults>>

\* Lines::next is counted up to this many calls.
MaxCalls == MaxLines + 3

NoRet == [state |-> "none", val |-> <<>>, err |-> [variant |-> "", cause |-> ""]]
Ok(v) == [state |-> "ok", val |-> v, err |-> [variant |-> "", cause |-> ""]]
Err(e) == [state |-> "err", val |-> <<>>, err |-> e]

\* A multi-line file over Bodies.  A last line without terminator is a line
\* only when it is not empty.
MultiLineFiles ==
    { f \in [rows : SeqUpTo(Bodies, MaxLines), term : {<<LF>>, <<CR, LF>>},
             finalNL : BOOLEAN] :
        /\ (~f.finalNL) => (Len(f.rows) > 0 /\ f.rows[Len(f.rows)] # <<>>)
        /\ (Len(f.rows) = 0) => (f.term = <<LF>>) }
\* A single-line file holding a seed extended by a few characters.
NumericFiles ==
    { [rows |-> <<s \o x>>, term |-> <<LF>>, finalNL |-> TRUE] :
        s \in Seeds, x \in SeqUpTo(Alphabet, MaxSuffix) }

InitRest ==
    /\ pc = "args"
    /\ file_name = <<>>
    /\ opened = FALSE
    /\ pos = 1
    /\ lines = <<>>
    /\ numbers = <<>>
    /\ ret = NoRet
    /\ console = <<>>
    /\ exitCode = -1
    /\ nextCalls = 0
    /\ lastYield = "none"
    /\ lineNo = 0
    /\ faults = {}

\* demo1 is given nothing or a numeral-like argument and reads no file.
InitDemo1 ==
    /\ demo = 1
    /\ argv \in {<<ProgName>>}
          \cup { <<ProgName, s \o x>> : s \in ArgSeeds, x \in SeqUpTo(Alphabet, MaxSuffix) }
    /\ disk = NoFile
    /\ rows = <<>>

\* demo2 .. demo6 are given nothing or a path; the file at the path does not
\* open, or opens and its reads all succeed or fail from some line start on.
InitFileDemo ==
    /\ demo \in 2..6
    /\ argv \in {<<ProgName>>, <<ProgName, PathArg>>}
    /\ \/ /\ disk = NoFile
          /\ rows = <<>>
       \/ \E f \in MultiLineFiles :
             LET b == Encode(f.rows, f.term, f.finalNL)
             IN  /\ rows = f.rows
                 /\ \E a \in {0} \cup ReadPoints(b) :
                       disk = [exists |-> TRUE, bytes |-> b, failAt |-> a]
       \/ \E f \in NumericFiles :
             /\ rows = f.rows
             /\ disk = [exists |-> TRUE, bytes |-> Encode(f.rows, f.term, f.finalNL),
                        failAt |-> 0]

Init == (InitDemo1 \/ InitFileDemo) /\ InitRest

\* ------------------------------------------------- library and helpers
\* One line of output: a value printed with "{}", or a diagnostic.
Value(text) == [kind |-> "value", fmt |-> "{}", what |-> "", text |-> text]
Diag(fmt, what) == [kind |-> "diag", fmt |-> fmt, what |-> what, text |-> <<>>]

\* A step that failed: which one, at which line of the file (0: before any
\* line), and the underlying cause.
Fault(step, at, cause) == [step |-> step, at |-> at, cause |-> cause]

\* A fault of Nth1: argv.nth(0), which is the program's name and always there.
Nth1_Zero(a) == [some |-> TRUE, val |-> a[1]]

\* argv.nth(1): the first positional argument, if there is one.
Nth1(a) == IF Len(a) > 1 THEN [some |-> TRUE, val |-> a[2]] ELSE [some |-> FALSE, val |-> <<>>]

\* A fault of FileOpen: the failure to open goes unnoticed.
FileOpen_AlwaysOk == [ok |-> TRUE, err |-> ""]

\* File::open(&path): the file, or the io::Error of the operating system.
FileOpen == IF disk.exists THEN [ok |-> TRUE, err |-> ""] ELSE [ok |-> FALSE, err |-> "NotFound"]

\* The try! macro on a Result r: on Ok the value, on Err the enclosing
\* function returns at once with the error (which the caller's From converts).
Try(r) ==
    IF r.ok THEN [returns |-> FALSE, err |-> ""] ELSE [returns |-> TRUE, err |-> r.err]

\* demo5: read_file returns io::Error itself (From<T> for T).
From_same(e) == [variant |-> "io::Error", cause |-> e]
\* A fault of From_io: the io::Error is wrapped in the other variant.
From_io_AsParse(e) == [variant |-> "Parse", cause |-> e]
\* A fault of From_parse: the ParseIntError is wrapped in the other variant.
From_parse_AsIo(e) == [variant |-> "Io", cause |-> e]

\* demo6: impl From<io::Error> for ReadError.
From_io(e) == [variant |-> "Io", cause |-> e]
\* demo6: impl From<num::ParseIntError> for ReadError.
From_parse(e) == [variant |-> "Parse", cause |-> e]

\* demo3 / demo4: the messages read_file returns as its error.
OpenMessage == [variant |-> "&str", cause |-> "Could not open file"]
ReadMessage == [variant |-> "&str", cause |-> "An error occured while reading a line"]

\* demo3, demo4, demo5 main: the Err arm's message.
RenderMessage(e) == Diag("An error occured: {}", e.cause)
\* A fault of RenderReadError: both arms print the same message.
RenderReadError_OneMessage(e) == Diag("Error reading file: {}", e.cause)

\* demo6 main: the Err arm's match on ReadError.
RenderReadError(e) ==
    IF e.variant = "Io" THEN Diag("Error reading file: {}", e.cause)
    ELSE Diag("Error parsing file: {}", e.cause)

\* The panic of Result::unwrap on an Err: the handler reports it, status 101.
PanicMessage(cause) == Diag("called Result::unwrap() on an Err value: {:?}", cause)

Min(a, b) == IF a < b THEN a ELSE b

\* The effect on the reader of one call of Lines::next that yields y.
Advance(y) ==
    /\ pos' = y.pos
    /\ nextCalls' = Min(nextCalls + 1, MaxCalls)
    /\ lastYield' = y.kind
    /\ lineNo' = IF y.pos > pos THEN lineNo + 1 ELSE lineNo

\* process::exit(code), or main returning (code 0).
Exit(code) == exitCode' = code /\ pc' = "done"

\* main, first statement (all demos): match argv.nth(1).
ArgsStep(msg, next) ==
    /\ pc = "args"
    /\ LET a == Nth1(argv)
       IN  IF a.some
           THEN /\ file_name' = a.val
                /\ pc' = next
                /\ UNCHANGED <<console, exitCode, faults>>
           ELSE /\ console' = Append(console, Diag(msg, ""))
                /\ faults' = faults \cup {Fault("arg", 0, "None")}
                /\ Exit(1)
                /\ UNCHANGED file_name
    /\ UNCHANGED <<demo, argv, disk, rows, opened, pos, lines, numbers, ret,
                   nextCalls, lastYield, lineNo>>

\* main of demo3 .. demo6: match read_file(&path): print every value (shown
\* is their Display), or the rendered error and exit(1).
MatchStep(rendered, shown) ==
    /\ pc = "match"
    /\ IF ret.state = "ok"
       THEN /\ console' = console \o [i \in 1..Len(shown) |-> Value(shown[i])]
            /\ Exit(0)
       ELSE /\ console' = Append(console, rendered)
            /\ Exit(1)
    /\ UNCHANGED <<demo, argv, disk, rows, file_name, opened, pos, lines, numbers,
                   ret, nextCalls, lastYield, lineNo, faults>>

\* The next item of read.lines() at the reader's position.
NextItem == LinesNext(disk.bytes, disk.failAt, pos)

\* ------------------------------------------------------------------ demo1
D1_Args == demo = 1 /\ ArgsStep("Not enough arguments", "parse")

\* main: match arg.parse() into an i32, print it or the error and exit(1).
D1_Parse ==
    /\ demo = 1
    /\ pc = "parse"
    /\ LET r == ParseI32(file_name)
       IN  IF r.ok
           THEN /\ console' = Append(console, Value(FormatInt(r.val)))
                /\ Exit(0)
                /\ UNCHANGED faults
           ELSE /\ console' = Append(console, Diag("Could not parse argument: {:?}", r.err))
                /\ faults' = faults \cup {Fault("parse", 0, r.err)}
                /\ Exit(1)
    /\ UNCHANGED <<demo, argv, disk, rows, file_name, opened, pos, lines, numbers,
                   ret, nextCalls, lastYield, lineNo>>

\* ------------------------------------------------------------------ demo2
D2_Args == demo = 2 /\ ArgsStep("Expected filename", "open")

\* main: File::open(&path).unwrap().
D2_Open ==
    /\ demo = 2
    /\ pc = "open"
    /\ LET f == FileOpen
       IN  IF f.ok
           THEN /\ opened' = TRUE
                /\ pc' = "lines"
                /\ UNCHANGED <<console, exitCode, faults>>
           ELSE /\ console' = Append(console, PanicMessage(f.err))
                /\ faults' = faults \cup {Fault("open", 0, f.err)}
                /\ Exit(101)
                /\ UNCHANGED opened
    /\ UNCHANGED <<demo, argv, disk, rows, file_name, pos, lines, numbers, ret,
                   nextCalls, lastYield, lineNo>>

\* main: one turn of `for line in read.lines()`: line.unwrap() and print.
D2_Loop ==
    /\ demo = 2
    /\ pc = "lines"
    /\ LET y == NextItem
       IN  /\ Advance(y)
           /\ CASE y.kind = "ok" ->
                     /\ console' = Append(console, Value(y.line))
                     /\ UNCHANGED <<pc, exitCode, faults>>
                [] y.kind = "err" ->
                     /\ console' = Append(console, PanicMessage(y.cause))
                     /\ faults' = faults \cup {Fault("read", lineNo + 1, y.cause)}
                     /\ Exit(101)
                [] y.kind = "eof" ->
                     /\ Exit(0)
                     /\ UNCHANGED <<console, faults>>
    /\ UNCHANGED <<demo, argv, disk, rows, file_name, opened, lines, numbers, ret>>

\* ------------------------------------------------------------------ demo3
D3_Args == demo = 3 /\ ArgsStep("Expected filename", "open")

\* read_file: match File::open(&path).
D3_Open ==
    /\ demo = 3
    /\ pc = "open"
    /\ LET f == FileOpen
       IN  IF f.ok
           THEN /\ opened' = TRUE
                /\ pc' = "lines"
                /\ UNCHANGED <<ret, faults>>
           ELSE /\ ret' = Err(OpenMessage)
                /\ faults' = faults \cup {Fault("open", 0, f.err)}
                /\ pc' = "match"
                /\ UNCHANGED opened
    /\ UNCHANGED <<demo, argv, disk, rows, file_name, pos, lines, numbers, console,
                   exitCode, nextCalls, lastYield, lineNo>>

\* read_file: one turn of `for line in read.lines()`, and Ok(lines) after it.
D3_Loop ==
    /\ demo = 3
    /\ pc = "lines"
    /\ LET y == NextItem
       IN  /\ Advance(y)
           /\ CASE y.kind = "ok" ->
                     /\ lines' = Append(lines, y.line)
                     /\ UNCHANGED <<pc, ret, faults>>
                [] y.kind = "err" ->
                     /\ ret' = Err(ReadMessage)
                     /\ faults' = faults \cup {Fault("read", lineNo + 1, y.cause)}
                     /\ lines' = <<>>
                     /\ pc' = "match"
                [] y.kind = "eof" ->
                     /\ ret' = Ok(lines)
                     /\ lines' = <<>>
                     /\ pc' = "match"
                     /\ UNCHANGED faults
    /\ UNCHANGED <<demo, argv, disk, rows, file_name, opened, numbers, console, exitCode>>

D3_Match == demo = 3 /\ MatchStep(RenderMessage(ret.err), ret.val)

\* ------------------------------------------------------------------ demo4
D4_Args == demo = 4 /\ ArgsStep("Expected filename", "open")

\* read_file: File::open(&path).map_err(|_| "Could not open file").
D4_Open ==
    /\ demo = 4
    /\ pc = "open"
    /\ LET f == FileOpen
       IN  IF f.ok
           THEN /\ opened' = TRUE
                /\ pc' = "lines"
                /\ UNCHANGED <<ret, faults>>
           ELSE /\ ret' = Err(OpenMessage)
                /\ faults' = faults \cup {Fault("open", 0, f.err)}
                /\ pc' = "match"
                /\ UNCHANGED opened
    /\ UNCHANGED <<demo, argv, disk, rows, file_name, pos, lines, numbers, console,
                   exitCode, nextCalls, lastYield, lineNo>>

\* read_file: one item through .lines().filter_map(|line| line.ok()).collect():
\* an Ok line is collected, an Err item is dropped and the iteration goes on,
\* and the end of the iterator ends the collection.
D4_Loop ==
    /\ demo = 4
    /\ pc = "lines"
    /\ LET y == NextItem
       IN  /\ Advance(y)
           /\ CASE y.kind = "ok" ->
                     /\ lines' = Append(lines, y.line)
                     /\ UNCHANGED <<pc, ret, faults>>
                [] y.kind = "err" ->
                     /\ faults' = faults \cup {Fault("read", lineNo + 1, y.cause)}
                     /\ UNCHANGED <<pc, ret, lines>>
                [] y.kind = "eof" ->
                     /\ ret' = Ok(lines)
                     /\ lines' = <<>>
                     /\ pc' = "match"
                     /\ UNCHANGED faults
    /\ UNCHANGED <<demo, argv, disk, rows, file_name, opened, numbers, console, exitCode>>

D4_Match == demo = 4 /\ MatchStep(RenderMessage(ret.err), ret.val)

\* ------------------------------------------------------------------ demo5
D5_Args == demo = 5 /\ ArgsStep("Expected filename", "open")

\* read_file: let file = try!(File::open(&path)).
D5_Open ==
    /\ demo = 5
    /\ pc = "open"
    /\ LET f == FileOpen
           t == Try(f)
       IN  IF t.returns
           THEN /\ ret' = Err(From_same(t.err))
                /\ faults' = faults \cup {Fault("open", 0, f.err)}
                /\ pc' = "match"
                /\ UNCHANGED opened
           ELSE /\ opened' = TRUE
                /\ pc' = "lines"
                /\ UNCHANGED <<ret, faults>>
    /\ UNCHANGED <<demo, argv, disk, rows, file_name, pos, lines, numbers, console,
                   exitCode, nextCalls, lastYield, lineNo>>

\* read_file: one turn of the loop, lines.push(try!(line)), and Ok(lines).
D5_Loop ==
    /\ demo = 5
    /\ pc = "lines"
    /\ LET y == NextItem
       IN  /\ Advance(y)
           /\ IF y.kind = "eof"
              THEN /\ ret' = Ok(lines)
                   /\ lines' = <<>>
                   /\ pc' = "match"
                   /\ UNCHANGED faults
              ELSE LET t == Try([ok |-> y.kind = "ok",
                                 err |-> IF y.kind = "err" THEN y.cause ELSE ""])
                   IN  IF t.returns
                       THEN /\ ret' = Err(From_same(t.err))
                            /\ faults' = faults \cup {Fault("read", lineNo + 1, y.cause)}
                            /\ lines' = <<>>
                            /\ pc' = "match"
                       ELSE /\ lines' = Append(lines, y.line)
                            /\ UNCHANGED <<pc, ret, faults>>
    /\ UNCHANGED <<demo, argv, disk, rows, file_name, opened, numbers, console, exitCode>>

D5_Match == demo = 5 /\ MatchStep(RenderMessage(ret.err), ret.val)

\* ------------------------------------------------------------------ demo6
D6_Args == demo = 6 /\ ArgsStep("Expected filename", "open")

\* read_file: let file = try!(File::open(&path)).
D6_Open ==
    /\ demo = 6
    /\ pc = "open"
    /\ LET f == FileOpen
           t == Try(f)
       IN  IF t.returns
           THEN /\ ret' = Err(From_io(t.err))
                /\ faults' = faults \cup {Fault("open", 0, f.err)}
                /\ pc' = "match"
                /\ UNCHANGED opened
           ELSE /\ opened' = TRUE
                /\ pc' = "lines"
                /\ UNCHANGED <<ret, faults>>
    /\ UNCHANGED <<demo, argv, disk, rows, file_name, pos, lines, numbers, console,
                   exitCode, nextCalls, lastYield, lineNo>>

\* read_file: one turn of the loop: try!(line), try!(line.trim().parse()),
\* numbers.push(n); and Ok(numbers) after the loop.
D6_Loop ==
    /\ demo = 6
    /\ pc = "lines"
    /\ LET y == NextItem
       IN  /\ Advance(y)
           /\ IF y.kind = "eof"
              THEN /\ ret' = Ok(numbers)
                   /\ numbers' = <<>>
                   /\ pc' = "match"
                   /\ UNCHANGED faults
              ELSE LET t == Try([ok |-> y.kind = "ok",
                                 err |-> IF y.kind = "err" THEN y.cause ELSE ""])
                   IN  IF t.returns
                       THEN /\ ret' = Err(From_io(t.err))
                            /\ faults' = faults \cup {Fault("read", lineNo + 1, y.cause)}
                            /\ numbers' = <<>>
                            /\ pc' = "match"
                       ELSE LET n == ParseLineU64(y.line)
                                u == Try([ok |-> n.ok, err |-> IF n.ok THEN "" ELSE n.err])
                            IN  IF u.returns
                                THEN /\ ret' = Err(From_parse(u.err))
                                     /\ faults' = faults \cup
                                            {Fault("parse", lineNo + 1, n.err)}
                                     /\ numbers' = <<>>
                                     /\ pc' = "match"
                                ELSE /\ numbers' = Append(numbers, n.val)
                                     /\ UNCHANGED <<pc, ret, faults>>
    /\ UNCHANGED <<demo, argv, disk, rows, file_name, opened, lines, console, exitCode>>

D6_Match ==
    /\ demo = 6
    /\ MatchStep(RenderReadError(ret.err), [i \in 1..Len(ret.val) |-> FormatInt(ret.val[i])])

\* ---------------------------------------------------------- specification
Next ==
    \/ D1_Args \/ D1_Parse
    \/ D2_Args \/ D2_Open \/ D2_Loop
    \/ D3_Args \/ D3_Open \/ D3_Loop \/ D3_Match
    \/ D4_Args \/ D4_Open \/ D4_Loop \/ D4_Match
    \/ D5_Args \/ D5_Open \/ D5_Loop \/ D5_Match
    \/ D6_Args \/ D6_Open \/ D6_Loop \/ D6_Match

Spec == Init /\ [][Next]_vars

TypeOK ==
    /\ demo \in 1..6
    /\ pc \in {"args", "parse", "open", "lines", "match", "done"}
    /\ exitCode \in {-1, 0, 1, 101}
    /\ nextCalls \in 0..MaxCalls
    /\ lastYield \in {"none", "ok", "err", "eof"}

\* ------------------------------------------------- vocabulary of the claims
Done == pc = "done"
ArgPresent == Len(argv) > 1
\* The path was given and the file at it opens.
FileGiven == ArgPresent /\ disk.exists
\* Every line of the file decodes and every read of it succeeds.
AllReadable ==
    /\ disk.failAt = 0
    /\ \A i \in 1..Len(rows) : \A j \in 1..Len(rows[i]) : rows[i][j] # InvalidByte
PrintedValues == SelectSeq(console, LAMBDA e : e.kind = "value")
Diagnostics == SelectSeq(console, LAMBDA e : e.kind = "diag")
ReadFaults == { f \in faults : f.step = "read" }

\* s without its leading and trailing whitespace.
Stripped(s) ==
    LET idx == { i \in 1..Len(s) : s[i] \notin WhiteSpace }
    IN  IF idx = {} THEN <<>>
        ELSE SubSeq(s, CHOOSE i \in idx : \A j \in idx : i <= j,
                       CHOOSE i \in idx : \A j \in idx : i >= j)
DigitChars == { Digits[i] : i \in 1..10 }
IsDecimalNumeral(t) == Len(t) > 0 /\ \A i \in 1..Len(t) : t[i] \in DigitChars
\* The value of a decimal numeral: its digits from the first non-zero one on.
NumeralValue(t) ==
    LET nz == { i \in 1..Len(t) : t[i] # "0" }
        from == IF nz = {} THEN Len(t) ELSE CHOOSE i \in nz : \A j \in nz : i <= j
    IN  [neg |-> FALSE,
         mag |-> [i \in 1..(Len(t) - from + 1) |->
                     (CHOOSE d \in 1..10 : Digits[d] = t[from + i - 1]) - 1]]
InU64(v) == (~v.neg) /\ MagLeq(v.mag, U64Max)

\* C8 as claimed: the trimmed line is a decimal numeral within u64.
AcceptedAsClaimed(line) ==
    LET t == Stripped(line) IN IsDecimalNumeral(t) /\ InU64(NumeralValue(t))
\* C8 as amended: one leading "+" is allowed before the numeral.
Unsigned(t) == IF Len(t) > 0 /\ t[1] = "+" THEN Tail(t) ELSE t
Accepted(line) ==
    LET t == Unsigned(Stripped(line)) IN IsDecimalNumeral(t) /\ InU64(NumeralValue(t))
ValueOfLine(line) == NumeralValue(Unsigned(Stripped(line)))

\* The lines of the file that are no accepted numeral, and the first of them.
Rejected == { i \in 1..Len(rows) : ~Accepted(rows[i]) }
FirstRejected == CHOOSE k \in Rejected : \A j \in Rejected : k <= j

\* ------------------------------------------------------------------- C1
\* C1: in demo3 .. demo6, once producing a line has failed, read_file has
\* returned a failure, holds no accumulated value, and never returns success.
C1_StrictAbort ==
    (demo \in 3..6 /\ ReadFaults # {}) =>
        /\ pc \in {"match", "done"}
        /\ ret.state = "err"
        /\ lines = <<>> /\ numbers = <<>>
        /\ PrintedValues = <<>>

\* ------------------------------------------------------------------- C2
\* C2 as claimed: in demo6, when line k is the first line of the opened file
\* that is no u64 numeral, the run ends with ReadError::Parse for line k and
\* prints no value.
C2_AsClaimed ==
    (demo = 6 /\ FileGiven /\ Rejected # {} /\ Done) =>
        /\ ret.state = "err"
        /\ ret.err.variant = "Parse"
        /\ \E f \in faults : f.step = "parse" /\ f.at = FirstRejected
                             /\ f.cause = ret.err.cause
        /\ PrintedValues = <<>>
        /\ exitCode = 1

\* C2 as amended: the same, for files whose lines are all read without error
\* up to and including line k.
C2_FirstParseFailure ==
    (demo = 6 /\ FileGiven /\ Rejected # {} /\ Done /\ ReadFaults = {}) =>
        /\ ret.state = "err"
        /\ ret.err.variant = "Parse"
        /\ faults = {Fault("parse", FirstRejected, ret.err.cause)}
        /\ lineNo = FirstRejected
        /\ PrintedValues = <<>>
        /\ exitCode = 1

\* The third line is the first rejected one, after two accepted lines.
C2_Witness ==
    /\ demo = 6 /\ FileGiven /\ Done /\ ReadFaults = {}
    /\ Len(rows) = 3 /\ Rejected # {} /\ FirstRejected = 3
    /\ ret.err.variant = "Parse"

\* ------------------------------------------------------------------- C3
\* C3: in demo3, demo4 and demo5, for an opened file of N lines that are all
\* read without error, read_file returns Ok of exactly the file's N lines in
\* order and main prints them one per line in that order, with status 0.
C3_AllLinesReturned ==
    (demo \in 3..5 /\ FileGiven /\ AllReadable) =>
        /\ (pc \in {"match", "done"}) =>
              (ret.state = "ok" /\ Len(ret.val) = Len(rows) /\ ret.val = rows)
        /\ Done =>
              /\ console = [i \in 1..Len(rows) |-> Value(rows[i])]
              /\ exitCode = 0

\* A three-line file with CR LF terminators was printed by demo5.
C3_Witness ==
    /\ demo = 5 /\ FileGiven /\ AllReadable /\ Done
    /\ Len(rows) = 3 /\ Len(PrintedValues) = 3
    /\ \E i \in 1..Len(disk.bytes) : disk.bytes[i] = CR

\* ------------------------------------------------------------------- C4
\* How the run's failure is classified at main: the panic of demo2, the
\* message of demo3 / demo4, the error type or ReadError variant of demo5 / demo6.
ClassOf(e) == IF e.variant = "&str" THEN e.cause ELSE e.variant
FailureClass == IF demo = 2 THEN "panic" ELSE ClassOf(ret.err)
\* The class a failed line read has in each demo (demo4 lets none out).
LineReadClass ==
    CASE demo = 2 -> "panic"
      [] demo = 3 -> ClassOf(ReadMessage)
      [] demo = 4 -> "never"
      [] demo = 5 -> ClassOf(From_same("InvalidData"))
      [] demo = 6 -> ClassOf(From_io("InvalidData"))

C5_OneDiagnosticPerFailure ==
    Done =>
        IF faults # {}
        THEN Len(Diagnostics) = 1 /\ exitCode # 0
        ELSE Len(Diagnostics) = 0 /\ exitCode = 0

\* ------------------------------------------------------------------- C6
\* The message rule of a diagnostic: its format and, where the demo passes a
\* fixed message (demo3, demo4), that message; a displayed cause is no part of it.
RuleOfDiag(dg) == <<dg.fmt, IF demo \in {3, 4} THEN dg.what ELSE "">>
\* What main prints for a failure of each kind (a failed step) with cause c.
RenderingOf(kind, c) ==
    CASE kind = "arg" -> Diag("Expected filename", "")
      [] kind = "open" /\ demo \in {3, 4} -> RenderMessage(OpenMessage)
      [] kind = "open" /\ demo = 5 -> RenderMessage(From_same(c))
      [] kind = "open" /\ demo = 6 -> RenderReadError(From_io(c))
      [] kind = "read" /\ demo \in {3, 4} -> RenderMessage(ReadMessage)
      [] kind = "read" /\ demo = 5 -> RenderMessage(From_same(c))
      [] kind = "read" /\ demo = 6 -> RenderReadError(From_io(c))
      [] kind = "parse" -> RenderReadError(From_parse(c))
\* The failure kinds that can end a run of each demo.
Kinds ==
    CASE demo = 3 -> {"arg", "open", "read"}
      [] demo = 4 -> {"arg", "open"}
      [] demo = 5 -> {"arg", "open", "read"}
      [] demo = 6 -> {"arg", "open", "read", "parse"}
\* The faults that ended the run (demo4 drops failed reads and goes on).
EndingFaults == IF demo = 4 THEN faults \ ReadFaults ELSE faults
\* Two kinds the code gives one error class: open and line read in demo5 / demo6.
SameClass(k1, k2) == demo \in {5, 6} /\ {k1, k2} = {"open", "read"}

C7_MissingArgument ==
    (~ArgPresent) =>
        /\ ~opened /\ nextCalls = 0 /\ ret = NoRet
        /\ pc \in {"args", "done"}
        /\ \A f \in faults : f.step = "arg"
        /\ Done =>
              /\ exitCode = 1
              /\ console = << Diag(IF demo = 1 THEN "Not enough arguments"
                                   ELSE "Expected filename", "") >>

\* demo6 ended without an argument although a file that opens is there.
C7_Witness == (~ArgPresent) /\ Done /\ demo = 6 /\ disk.exists /\ exitCode = 1

\* ------------------------------------------------------------------- C8
\* C8 as claimed: in demo6, over a file whose lines are all read, read_file
\* returns Ok exactly when every line, trimmed, is a decimal numeral within
\* u64, with these values; otherwise it returns ReadError::Parse.
C8_AsClaimed ==
    (demo = 6 /\ FileGiven /\ AllReadable /\ pc \in {"match", "done"}) =>
        IF \A i \in 1..Len(rows) : AcceptedAsClaimed(rows[i])
        THEN ret.state = "ok"
             /\ ret.val = [i \in 1..Len(rows) |-> NumeralValue(Stripped(rows[i]))]
        ELSE ret.state = "err" /\ ret.err.variant = "Parse"

\* C8 as amended: a line is accepted exactly when, trimmed, it is a decimal
\* numeral within u64 that one "+" may precede; the value pushed is the
\* numeral's, never one outside u64.
C8_NumeralAccepted ==
    (demo = 6 /\ FileGiven /\ AllReadable) =>
        /\ (pc = "lines") =>
              /\ numbers = [i \in 1..lineNo |-> ValueOfLine(rows[i])]
              /\ \A i \in 1..lineNo : Accepted(rows[i])
        /\ (pc \in {"match", "done"}) =>
              IF \A i \in 1..Len(rows) : Accepted(rows[i])
              THEN /\ ret.state = "ok"
                   /\ ret.val = [i \in 1..Len(rows) |-> ValueOfLine(rows[i])]
                   /\ \A i \in 1..Len(ret.val) : InU64(ret.val[i])
              ELSE ret.state = "err" /\ ret.err.variant = "Parse"
                   /\ ~Accepted(rows[lineNo])

\* "+18446744073709551615" was accepted as u64::MAX.
C8_Witness ==
    /\ demo = 6 /\ FileGiven /\ AllReadable /\ pc = "match"
    /\ ret.state = "ok" /\ Len(ret.val) = 1
    /\ ret.val[1].mag = U64Max
    /\ rows[1][1] = "+"

\* ------------------------------------------------------------------- C9
\* C9: once Lines::next has yielded a failure or the end of the sequence, it
\* is not called again.
C9_NoRequestAfterTerminal ==
    [][(lastYield \in {"err", "eof"}) => (nextCalls' = nextCalls)]_vars

\* ------------------------------------------------------------------ C10
\* C10: in demo5 and demo6, while no step has failed read_file goes on with
\* every line so far pushed; once a step of read_file has failed, read_file
\* has returned Err of that step's cause, nothing more was read, pushed or
\* printed; in demo6 the error is ReadError::Io for an io::Error and
\* ReadError::Parse for a ParseIntError.
C10_TryPropagates ==
    (demo \in {5, 6}) =>
        /\ (faults = {} /\ pc = "lines") =>
              /\ ret = NoRet /\ opened /\ nextCalls = lineNo
              /\ demo = 5 => lines = SubSeq(rows, 1, lineNo)
              /\ demo = 6 => Len(numbers) = lineNo
        /\ \A f \in faults : f.step # "arg" =>
              /\ faults = {f}
              /\ pc \in {"match", "done"}
              /\ ret.state = "err" /\ ret.err.cause = f.cause
              /\ lines = <<>> /\ numbers = <<>> /\ PrintedValues = <<>>
              /\ nextCalls = f.at
              /\ ret.err.variant =
                    IF demo = 5 THEN "io::Error"
                    ELSE IF f.step = "parse" THEN "Parse" ELSE "Io"

\* demo6 returned ReadError::Io for a second line that is not valid UTF-8.
C10_Witness ==
    /\ demo = 6 /\ Done
    /\ faults = {Fault("read", 2, "InvalidData")}
    /\ ret.err = [variant |-> "Io", cause |-> "InvalidData"]

====
